---- MODULE Spec2Model ----
(***************************************************************************)
(* A model of the NCO semantic search service: the FastAPI process of      *)
(* backend/main.py (search, update-synonyms, reindex), the engine of       *)
(* backend/inference.py and the index builder embeddings/build_index.py.   *)
(*                                                                         *)
(* Spec        the service process: reindex requests, the build            *)
(*             subprocesses they start, synonym updates and searches      *)
(*             interleaved on the event loop.                              *)
(* SpecLive    reindex requests, builds and searches under the event       *)
(*             loop's fairness: a pending timeout fires, a returned        *)
(*             communicate() resumes the handler.                          *)
(* SpecSearch  one search request through NCOEngine.search and the         *)
(*             /search handler, inputs drawn in Init.                      *)
(* SpecRepeat  the same query searched again on the same snapshot, by the  *)
(*             same or by a restarted process.                             *)
(* SpecHTTP    POST /search requests through the middleware, the request   *)
(*             validation and the rate limiter.                            *)
(* SpecAdmin   the admin endpoints behind require_admin: logs, stats,      *)
(*             update-synonyms, reindex (its start), delete and purge.     *)
(* SpecSynonyms  sequences of update-synonyms requests.                    *)
(* SpecKeyword  NCOEngine._keyword_fallback applied to a query.             *)
(* SpecStages  one /search request on a snapshot large enough for the      *)
(*             softmax confidence of the top result to fall below 0.3.     *)
(***************************************************************************)
EXTENDS Integers, Sequences, FiniteSets, TLC

(***************************************************************************)
(* Bounds of the model.                                                    *)
(***************************************************************************)
\* number of POST /admin/reindex requests issued in one behaviour
NumReindex == 2

ReindexReqs == 1..NumReindex

(***************************************************************************)
(* The catalog file backend/nco_data.json as the ETL leaves it.            *)
(***************************************************************************)
WelderCode == "7212.0100"
TailorCode == "7531.0100"
UnknownCode == "9999.9999"

\* synonym values an admin may add or remove
AdminSyns == {"arc welder"}

\* marker of the synonyms nco_processor_final.py generates for an enhanced record
GeneratedSyn == "generated synonym"

InitialCatalog ==
    << [nco_code |-> WelderCode, title |-> "Welder", synonyms |-> {}],
       [nco_code |-> TailorCode, title |-> "Tailor", synonyms |-> {}] >>

\* a file that does not exist; main.engine before startup (None)
NoFile == [exists |-> FALSE, occupations |-> << >>]
NoEngine == [loaded |-> FALSE, occupations |-> << >>, index |-> << >>]

File(occupations) == [exists |-> TRUE, occupations |-> occupations]

Reverse(s) == [i \in 1..Len(s) |-> s[Len(s) + 1 - i]]

\* enhance_occupation: the record with regenerated synonyms
EnhanceOccupation(occ) ==
    [nco_code |-> occ.nco_code, title |-> occ.title, synonyms |-> {GeneratedSyn}]

\* process_dataset: enhanced records, sorted by quality score (an order that is
\* unrelated to the catalog's: here either the catalog's or its reverse)
EnhancedFiles ==
    LET enh == [i \in 1..Len(InitialCatalog) |-> EnhanceOccupation(InitialCatalog[i])]
    IN  {File(enh), File(Reverse(enh))}

(***************************************************************************)
(* build_index.py and NCOEngine.__init__                                   *)
(***************************************************************************)
\* create_passage: title, description, synonyms, examples (never the code)
CreatePassage(occ) == [title |-> occ.title, synonyms |-> occ.synonyms]

\* model.encode: an opaque deterministic function of the passage text
Embed(passage) == [embedding_of |-> passage]

\* the vectors build_index adds to the FAISS index, in catalog order
BuildVectors(occupations) ==
    [i \in 1..Len(occupations) |-> Embed(CreatePassage(occupations[i]))]

\* NCOEngine.__init__: records from nco_data_enhanced.json when it exists,
\* else from meta.json; vectors from nco.index
NCOEngine(enhanced, index, meta) ==
    [loaded |-> TRUE,
     occupations |-> IF enhanced.exists THEN enhanced.occupations ELSE meta,
     index |-> index]

\* /health: vectors_loaded
num_occupations(e) == IF e.loaded THEN Len(e.occupations) ELSE 0

VARIABLES
    engine,          \* main.engine: the engine searches are served from
    is_reindexing,   \* main.is_reindexing
    reindex_lock,    \* holder of main.reindex_lock (0: free)
    lock_waiters,    \* requests suspended in reindex_lock.acquire(), FIFO
    dataFile,        \* backend/nco_data.json
    enhancedFile,    \* backend/nco_data_enhanced.json (NoFile: absent)
    indexFile,       \* backend/faiss_index/nco.index
    metaFile,        \* backend/faiss_index/meta.json ("occupations")
    rpc,             \* position of each reindex request in the handler
    outcome,         \* HTTP status each reindex request returned (0: none yet)
    proc,            \* state of the build subprocess each request started
    procData,        \* the occupations a running build has loaded
    arrivedDuring,   \* history: is_reindexing when the request arrived
    engineBefore,    \* history: engine when the running request set is_reindexing
    dataBefore,      \* history: catalog when the running request set is_reindexing
    lastSearch,      \* the latest /search response
    request,         \* SpecSearch: the search call and its configuration
    spc,             \* SpecSearch: position in NCOEngine.search / the handler
    call,            \* SpecSearch: which engine.search call of the handler runs
    pending,         \* SpecSearch: variants the loop has not tried yet
    engine_results,  \* SpecSearch: NCOEngine.search's results
    response,        \* SpecSearch: the handler's results and flags
    snapshot,        \* SpecRepeat: the query, k and the index's similarities
    hashOrder,       \* SpecRepeat: the order this process's set yields the variants
    answers,         \* SpecRepeat: the lists NCOEngine.search returned so far
    rate_hits,       \* the limiter's count of each key's current window (search bucket)
    searchLog,       \* logs/search.jsonl, a sequence of lines
    feedbackLog,     \* logs/feedback.jsonl, a sequence of lines
    clock,           \* datetime.utcnow(), in ticks
    reply,           \* the latest HTTP response, with what the request did
    ADMIN_TOKEN      \* the configured shared secret ("": unset)

serverVars == << engine, is_reindexing, reindex_lock, lock_waiters, dataFile,
                 enhancedFile, indexFile, metaFile, rpc, outcome, proc, procData,
                 arrivedDuring, engineBefore, dataBefore, lastSearch >>

searchVars == << request, spc, call, pending, engine_results, response >>

repeatVars == << snapshot, hashOrder, answers >>

\* the variables of the specifications an action of Spec or SpecSearch never
\* touches
httpVars == << rate_hits, searchLog, feedbackLog, clock, reply, ADMIN_TOKEN >>

otherVars == << repeatVars, httpVars >>

vars == << serverVars, searchVars, otherVars >>

NoSnapshot == [query |-> << >>, k |-> 0, sims |-> << >>]

\* no repeated search is being followed
RepeatIdle ==
    /\ snapshot = NoSnapshot
    /\ hashOrder = << >>
    /\ answers = << >>

\* client keys of the rate limiter
Keys == {"10.0.0.1", "10.0.0.2"}

NoReply == [op |-> "none", status |-> 0, at |-> 0]

\* no HTTP request is being followed: empty logs, no hits
HttpIdle ==
    /\ rate_hits = [key \in Keys |-> 0]
    /\ searchLog = << >>
    /\ feedbackLog = << >>
    /\ clock = 0
    /\ reply = NoReply
    /\ ADMIN_TOKEN = ""

NoRequest ==
    [mode |-> "none", n |-> 0, query |-> << >>, k |-> 0, division_filter |-> "none",
     language |-> "en", enable_translation |-> FALSE]

NoResponse ==
    [results |-> << >>, low_confidence |-> FALSE, translated |-> FALSE, status |-> 0]

\* no search request is being followed
SearchIdle ==
    /\ request = NoRequest
    /\ spc = "idle"
    /\ call = "original"
    /\ pending = {}
    /\ engine_results = << >>
    /\ response = NoResponse

files == << dataFile, enhancedFile, indexFile, metaFile >>
builds == << proc, procData >>
history == << arrivedDuring, engineBefore, dataBefore >>

ProcRunning == {"spawned", "loaded", "wrote_index"}
ProcExited == {"exit0", "exit1"}

NoSearch == [status |-> 0, during |-> FALSE, fromPrevious |-> FALSE]

\* lifespan: the index artifacts of an earlier complete build, the engine loaded
\* with use_enhanced=True
ServerInit ==
    /\ dataFile = InitialCatalog
    /\ enhancedFile \in {NoFile} \cup EnhancedFiles
    /\ indexFile = BuildVectors(InitialCatalog)
    /\ metaFile = InitialCatalog
    /\ engine = NCOEngine(enhancedFile, indexFile, metaFile)
    /\ is_reindexing = FALSE
    /\ reindex_lock = 0
    /\ lock_waiters = << >>
    /\ rpc = [r \in ReindexReqs |-> "idle"]
    /\ outcome = [r \in ReindexReqs |-> 0]
    /\ proc = [r \in ReindexReqs |-> "none"]
    /\ procData = [r \in ReindexReqs |-> << >>]
    /\ arrivedDuring = [r \in ReindexReqs |-> FALSE]
    /\ engineBefore = [r \in ReindexReqs |-> NoEngine]
    /\ dataBefore = [r \in ReindexReqs |-> << >>]
    /\ lastSearch = NoSearch

Init == ServerInit /\ SearchIdle /\ RepeatIdle /\ HttpIdle

(***************************************************************************)
(* POST /admin/reindex                                                     *)
(***************************************************************************)
\* the handler from the acquired lock to its first suspension: the 409 check,
\* is_reindexing = True, create_subprocess_exec
ReindexLocked(r) ==
    /\ reindex_lock' = IF is_reindexing THEN 0 ELSE r
    /\ rpc' = [rpc EXCEPT ![r] = IF is_reindexing THEN "done" ELSE "communicate"]
    /\ outcome' = [outcome EXCEPT ![r] = IF is_reindexing THEN 409 ELSE 0]
    /\ proc' = [proc EXCEPT ![r] = IF is_reindexing THEN "none" ELSE "spawned"]
    /\ engineBefore' = [engineBefore EXCEPT ![r] = IF is_reindexing THEN NoEngine ELSE engine]
    /\ dataBefore' = [dataBefore EXCEPT ![r] = IF is_reindexing THEN << >> ELSE dataFile]
    /\ is_reindexing' = TRUE

\* a request arrives; requests are numbered in arrival order
ReindexArrive(r) ==
    /\ rpc[r] = "idle"
    /\ \A q \in 1..(r - 1) : rpc[q] # "idle"
    /\ arrivedDuring' = [arrivedDuring EXCEPT ![r] = is_reindexing]
    /\ IF reindex_lock = 0 /\ lock_waiters = << >>
       THEN /\ ReindexLocked(r)
            /\ UNCHANGED lock_waiters
       ELSE /\ rpc' = [rpc EXCEPT ![r] = "wait_lock"]
            /\ lock_waiters' = Append(lock_waiters, r)
            /\ UNCHANGED << is_reindexing, reindex_lock, outcome, proc,
                            engineBefore, dataBefore >>
    /\ UNCHANGED << engine, files, procData, lastSearch, searchVars, otherVars >>

\* the first waiter is woken once the lock is released
ReindexAcquire(r) ==
    /\ rpc[r] = "wait_lock"
    /\ reindex_lock = 0
    /\ lock_waiters # << >> /\ Head(lock_waiters) = r
    /\ lock_waiters' = Tail(lock_waiters)
    /\ ReindexLocked(r)
    /\ UNCHANGED << engine, files, procData, arrivedDuring, lastSearch, searchVars, otherVars >>

\* a timeout whose handler leaves without the finally clause
ReindexTimeoutKeepsFlag(r) ==
    /\ rpc[r] = "communicate"
    /\ proc[r] \in ProcRunning
    /\ rpc' = [rpc EXCEPT ![r] = "done"]
    /\ outcome' = [outcome EXCEPT ![r] = 504]
    /\ reindex_lock' = 0
    /\ engineBefore' = [engineBefore EXCEPT ![r] = NoEngine]
    /\ dataBefore' = [dataBefore EXCEPT ![r] = << >>]
    /\ UNCHANGED << engine, is_reindexing, lock_waiters, files, builds, arrivedDuring,
                    lastSearch, searchVars, otherVars >>

\* asyncio.wait_for times out while proc.communicate() is pending: 504, and the
\* finally clause; nothing terminates the subprocess
ReindexTimeout(r) ==
    /\ rpc[r] = "communicate"
    /\ proc[r] \in ProcRunning
    /\ rpc' = [rpc EXCEPT ![r] = "done"]
    /\ outcome' = [outcome EXCEPT ![r] = 504]
    /\ is_reindexing' = FALSE
    /\ reindex_lock' = 0
    /\ engineBefore' = [engineBefore EXCEPT ![r] = NoEngine]
    /\ dataBefore' = [dataBefore EXCEPT ![r] = << >>]
    /\ UNCHANGED << engine, lock_waiters, files, builds, arrivedDuring, lastSearch,
                    searchVars, otherVars >>

\* a reload that publishes whatever the artifacts hold, failed or not
ReloadEngineBroken(ok) == NCOEngine(enhancedFile, indexFile, metaFile)

\* reload_engine: the global is assigned only when the constructor returned
ReloadEngine(ok) ==
    IF ok THEN NCOEngine(enhancedFile, indexFile, metaFile) ELSE engine

\* proc.communicate() returned: the exit code, reload_engine, the response, and
\* the finally clause
ReindexComplete(r) ==
    /\ rpc[r] = "communicate"
    /\ proc[r] \in ProcExited
    /\ \E ok \in BOOLEAN :
         IF proc[r] = "exit1"
         THEN /\ outcome' = [outcome EXCEPT ![r] = 500]
              /\ UNCHANGED engine
         ELSE /\ engine' = ReloadEngine(ok)
              /\ outcome' = [outcome EXCEPT ![r] = IF ok THEN 200 ELSE 500]
    /\ rpc' = [rpc EXCEPT ![r] = "done"]
    /\ is_reindexing' = FALSE
    /\ reindex_lock' = 0
    /\ engineBefore' = [engineBefore EXCEPT ![r] = NoEngine]
    /\ dataBefore' = [dataBefore EXCEPT ![r] = << >>]
    /\ UNCHANGED << lock_waiters, files, builds, arrivedDuring, lastSearch, searchVars, otherVars >>

(***************************************************************************)
(* embeddings/build_index.py, run as a subprocess                          *)
(***************************************************************************)
\* load_nco_data
BuildLoad(r) ==
    /\ proc[r] = "spawned"
    /\ proc' = [proc EXCEPT ![r] = "loaded"]
    /\ procData' = [procData EXCEPT ![r] = dataFile]
    /\ UNCHANGED << engine, is_reindexing, reindex_lock, lock_waiters, files,
                    rpc, outcome, history, lastSearch, searchVars, otherVars >>

\* faiss.write_index(index, "nco.index")
BuildWriteIndex(r) ==
    /\ proc[r] = "loaded"
    /\ proc' = [proc EXCEPT ![r] = "wrote_index"]
    /\ indexFile' = BuildVectors(procData[r])
    /\ UNCHANGED << engine, is_reindexing, reindex_lock, lock_waiters, dataFile,
                    enhancedFile, metaFile, procData, rpc, outcome, history,
                    lastSearch, searchVars, otherVars >>

\* json.dump(metadata, "meta.json") and a normal exit
BuildWriteMeta(r) ==
    /\ proc[r] = "wrote_index"
    /\ proc' = [proc EXCEPT ![r] = "exit0"]
    /\ metaFile' = procData[r]
    /\ procData' = [procData EXCEPT ![r] = << >>]
    /\ UNCHANGED << engine, is_reindexing, reindex_lock, lock_waiters, dataFile,
                    enhancedFile, indexFile, rpc, outcome, history, lastSearch,
                    searchVars, otherVars >>

\* an exception anywhere in the script: a non-zero exit code
BuildFail(r) ==
    /\ proc[r] \in ProcRunning
    /\ proc' = [proc EXCEPT ![r] = "exit1"]
    /\ procData' = [procData EXCEPT ![r] = << >>]
    /\ UNCHANGED << engine, is_reindexing, reindex_lock, lock_waiters, files,
                    rpc, outcome, history, lastSearch, searchVars, otherVars >>

(***************************************************************************)
(* POST /admin/update-synonyms, a batch of one update                      *)
(***************************************************************************)
\* an update whose remove step is left out
ApplyUpdateIgnoresRemove(occ, add, remove) ==
    [occ EXCEPT !.synonyms = occ.synonyms \cup add]

\* the record after the add and remove steps of one update
ApplyUpdate(occ, add, remove) ==
    [occ EXCEPT !.synonyms = (occ.synonyms \cup add) \ remove]

\* updated_count for one update: one per step that changed the set
UpdatedCount(occ, add, remove) ==
    (IF add \ occ.synonyms # {} THEN 1 ELSE 0)
    + (IF remove \cap (occ.synonyms \cup add) # {} THEN 1 ELSE 0)

\* code_map: the record an update of nco_code addresses (the last such record)
CodeMap(occupations, nco_code) ==
    LET at == {i \in 1..Len(occupations) : occupations[i].nco_code = nco_code}
    IN  IF at = {} THEN 0 ELSE CHOOSE i \in at : \A j \in at : j <= i

\* an update that also reloads the engine from the artifacts on disk
UpdateSynonymsReloads(nco_code, add, remove) ==
    /\ LET i == CodeMap(dataFile, nco_code)
       IN  IF i = 0 \/ UpdatedCount(dataFile[i], add, remove) = 0
           THEN UNCHANGED dataFile
           ELSE dataFile' = [dataFile EXCEPT ![i] = ApplyUpdate(dataFile[i], add, remove)]
    /\ engine' = NCOEngine(enhancedFile, indexFile, metaFile)
    /\ UNCHANGED << is_reindexing, reindex_lock, lock_waiters,
                    enhancedFile, indexFile, metaFile, rpc, outcome, builds,
                    history, lastSearch, searchVars, otherVars >>

\* the handler: nco_data.json is rewritten, nothing else of the service
UpdateSynonyms(nco_code, add, remove) ==
    /\ LET i == CodeMap(dataFile, nco_code)
       IN  IF i = 0 \/ UpdatedCount(dataFile[i], add, remove) = 0
           THEN UNCHANGED dataFile
           ELSE dataFile' = [dataFile EXCEPT ![i] = ApplyUpdate(dataFile[i], add, remove)]
    /\ UNCHANGED << engine, is_reindexing, reindex_lock, lock_waiters,
                    enhancedFile, indexFile, metaFile, rpc, outcome, builds,
                    history, lastSearch, searchVars, otherVars >>

(***************************************************************************)
(* POST /search: admission by the reindex flag and the engine              *)
(***************************************************************************)
RunningReindex == {r \in ReindexReqs : rpc[r] = "communicate"}

\* a handler without the is_reindexing check
SearchStatusUngated == IF ~engine.loaded THEN 503 ELSE 200

\* search: 503 while reindexing or without an engine
SearchStatus == IF is_reindexing \/ ~engine.loaded THEN 503 ELSE 200

Search ==
    /\ lastSearch' =
         [status |-> SearchStatus,
          during |-> is_reindexing,
          fromPrevious |-> /\ SearchStatus = 200
                           /\ \A r \in RunningReindex : engine = engineBefore[r]]
    /\ UNCHANGED << engine, is_reindexing, reindex_lock, lock_waiters, files,
                    rpc, outcome, builds, history, searchVars, otherVars >>

Next ==
    \/ \E r \in ReindexReqs : ReindexArrive(r)
    \/ \E r \in ReindexReqs : ReindexAcquire(r)
    \/ \E r \in ReindexReqs : ReindexTimeout(r)
    \/ \E r \in ReindexReqs : ReindexComplete(r)
    \/ \E r \in ReindexReqs : BuildLoad(r)
    \/ \E r \in ReindexReqs : BuildWriteIndex(r)
    \/ \E r \in ReindexReqs : BuildWriteMeta(r)
    \/ \E r \in ReindexReqs : BuildFail(r)
    \/ \E c \in {WelderCode, UnknownCode}, add \in SUBSET AdminSyns,
          remove \in SUBSET AdminSyns : UpdateSynonyms(c, add, remove)
    \/ Search

Spec == Init /\ [][Next]_vars

\* the event loop resumes the handler: asyncio.wait_for's timer fires while
\* the build is still running, and proc.communicate() returns once the build
\* has exited; the build itself may hang
ReindexFairness ==
    \A r \in ReindexReqs :
        /\ WF_vars(ReindexTimeout(r))
        /\ WF_vars(ReindexComplete(r))

\* reindex requests, their builds and searches; the catalog is left alone
NextLive ==
    \/ \E r \in ReindexReqs : ReindexArrive(r)
    \/ \E r \in ReindexReqs : ReindexAcquire(r)
    \/ \E r \in ReindexReqs : ReindexTimeout(r)
    \/ \E r \in ReindexReqs : ReindexComplete(r)
    \/ \E r \in ReindexReqs : BuildLoad(r)
    \/ \E r \in ReindexReqs : BuildWriteIndex(r)
    \/ \E r \in ReindexReqs : BuildWriteMeta(r)
    \/ \E r \in ReindexReqs : BuildFail(r)
    \/ Search

SpecLive == Init /\ [][NextLive]_vars /\ ReindexFairness

(***************************************************************************)
(* NCOEngine.search and the /search handler: data                          *)
(*                                                                         *)
(* Texts are sequences of words; raw similarities are hundredths; a        *)
(* confidence is the fraction num/den.                                     *)
(***************************************************************************)
\* largest catalog prefix loaded, largest k requested, and the most close
\* matches difflib reports
MaxN == 3
MaxK == 2
MaxClose == 2

\* raw inner products the embedding model may give a (query, record) pair
ScoreSet == {0, 48, 100}

LOWCONF_SOFTMAX == 55
LOWCONF_TOPSIM == 48

\* a catalog file as pdf_processing.py first writes it: the third record
\* repeats the code of the first
SearchCatalog ==
    << [nco_code |-> "7212.0100", title |-> << "Welder" >>,
        synonyms |-> << << "arc", "welder" >> >>, division_code |-> "7"],
       [nco_code |-> "2330.0100", title |-> << "Teacher" >>,
        synonyms |-> << << "tutor" >> >>, division_code |-> "2"],
       [nco_code |-> "7212.0100", title |-> << "Gas", "Welder" >>,
        synonyms |-> << << "welder" >> >>, division_code |-> "7"],
       [nco_code |-> "7531.0100", title |-> << "Tailor" >>,
        synonyms |-> << << "garment", "maker" >> >>, division_code |-> "7"],
       [nco_code |-> "8322.0100", title |-> << "Driver" >>,
        synonyms |-> << << "chauffeur" >> >>, division_code |-> "8"] >>

\* the order of the codes as Python compares strings
CodeOrder == << "2330.0100", "7212.0100", "7531.0100", "8322.0100" >>
CodeRank(c) == CHOOSE i \in 1..Len(CodeOrder) : CodeOrder[i] = c

\* str.lower, word by word
LowerWord(w) ==
    CASE w = "Welder" -> "welder"
      [] w = "Tailor" -> "tailor"
      [] w = "Teacher" -> "teacher"
      [] w = "Gas" -> "gas"
      [] w = "Driver" -> "driver"
      [] OTHER -> w
Lower(text) == [i \in 1..Len(text) |-> LowerWord(text[i])]

Min(a, b) == IF a < b THEN a ELSE b
Take(s, n) == SubSeq(s, 1, Min(n, Len(s)))

\* a in b, for texts
IsInfix(a, b) ==
    \E i \in 0..(Len(b) - Len(a)) : \A j \in 1..Len(a) : b[i + j] = a[j]

\* str.replace(term, syn): every occurrence, left to right
RECURSIVE Replace(_, _, _)
Replace(text, term, syn) ==
    IF Len(text) < Len(term) \/ term = << >> THEN text
    ELSE IF SubSeq(text, 1, Len(term)) = term
         THEN syn \o Replace(SubSeq(text, Len(term) + 1, Len(text)), term, syn)
         ELSE << text[1] >> \o Replace(Tail(text), term, syn)

\* NCOEngine.SYNONYM_BANK
SYNONYM_BANK ==
    << [term |-> << "tailor" >>,
        syns |-> << << "sewing", "machine", "operator" >>, << "garment", "maker" >>,
                    << "seamstress" >> >>],
       [term |-> << "driver" >>,
        syns |-> << << "vehicle", "operator" >>, << "chauffeur" >>,
                    << "transport", "operator" >> >>],
       [term |-> << "teacher" >>,
        syns |-> << << "educator" >>, << "instructor" >>, << "tutor" >>,
                    << "faculty" >> >>],
       [term |-> << "it", "professional" >>,
        syns |-> << << "software", "developer" >>, << "programmer" >>, << "coder" >> >>],
       [term |-> << "healthcare", "worker" >>,
        syns |-> << << "medical", "professional" >>, << "health", "practitioner" >> >>],
       [term |-> << "coolie" >>,
        syns |-> << << "porter" >>, << "loader" >>, << "cargo", "handler" >> >>],
       [term |-> << "mali" >>,
        syns |-> << << "gardener" >>, << "horticulturist" >>, << "landscaper" >> >>] >>

\* _expand_query_with_synonyms: the set of variants (the query among them)
ExpandQueryWithSynonyms(query) ==
    {query} \cup
    { Replace(Lower(query), SYNONYM_BANK[b].term, SYNONYM_BANK[b].syns[j]) :
        <<b, j>> \in { <<b, j>> \in (1..Len(SYNONYM_BANK)) \X (1..4) :
                          /\ j <= Len(SYNONYM_BANK[b].syns)
                          /\ IsInfix(SYNONYM_BANK[b].term, Lower(query)) } }

\* the queries of the model
Queries ==
    { << "welder" >>, << "Tailor" >>, << "arc", "welder" >>, << "it" >>, << "darzi" >> }

\* TranslationService.translate_query to English (offline mappings); "darzi"
\* stands for the Devanagari word the Hindi mapping sends to "tailor"
TranslateQuery(query, language) ==
    IF language = "hi" /\ query = << "darzi" >> THEN << "tailor" >> ELSE query

(***************************************************************************)
(* Stage A: index.search, softmax, hierarchy filter, first k               *)
(***************************************************************************)
\* np.exp(-d / 100), in thousandths
ExpMilli(d) ==
    CASE d = 0 -> 1000
      [] d = 48 -> 619
      [] d = 52 -> 595
      [] d = 100 -> 368

\* IndexFlatIP.search: ordinals by similarity descending, ties by ordinal
Better(sc, i, j) == sc[i] > sc[j] \/ (sc[i] = sc[j] /\ i < j)
IndexSearch(sc, n) ==
    [p \in 1..n |->
        CHOOSE i \in DOMAIN sc :
            Cardinality({j \in DOMAIN sc : Better(sc, j, i)}) + 1 = p]

RECURSIVE SumSeq(_)
SumSeq(s) == IF s = << >> THEN 0 ELSE Head(s) + SumSeq(Tail(s))

\* a softmax over the retained results only
SoftmaxRetained(sims, retained) ==
    LET w == [p \in 1..Len(sims) |->
                 IF p \in retained THEN ExpMilli(sims[1] - sims[p]) ELSE 0]
    IN  [p \in 1..Len(sims) |-> [num |-> w[p], den |-> SumSeq(w)]]

\* exp_scores / np.sum(exp_scores) over all fetched similarities
Softmax(sims, retained) ==
    LET w == [p \in 1..Len(sims) |-> ExpMilli(sims[1] - sims[p])]
    IN  [p \in 1..Len(sims) |-> [num |-> w[p], den |-> SumSeq(w)]]

\* the positions of the fetched list that pass the hierarchy filter, first k
Retained(occupations, fetched, k, division_filter) ==
    Take(SelectSeq([p \in 1..Len(fetched) |-> p],
                   LAMBDA p : division_filter = "none"
                              \/ occupations[fetched[p]].division_code = division_filter),
         k)

\* temp_results of one attempt of the loop of NCOEngine.search
VectorStage(occupations, sc, k, division_filter) ==
    LET fetched == IndexSearch(sc, Min(k * 3, Len(occupations)))
        sims == [p \in 1..Len(fetched) |-> sc[fetched[p]]]
        kept == Retained(occupations, fetched, k, division_filter)
        conf == Softmax(sims, {kept[x] : x \in 1..Len(kept)})
    IN  [x \in 1..Len(kept) |->
            [nco_code |-> occupations[fetched[kept[x]]].nco_code,
             title |-> occupations[fetched[kept[x]]].title,
             score |-> sims[kept[x]],
             confidence |-> conf[kept[x]],
             matched_synonyms |-> << >>,
             stage |-> "vector",
             fetched |-> Len(fetched)]]

\* confidence comparisons against a percentage
ConfAtLeast(c, pct) == 100 * c.num >= pct * c.den
ConfBelow(c, pct) == 100 * c.num < pct * c.den

(***************************************************************************)
(* Stage D: keyword and fuzzy fallback, merge, annotation                  *)
(***************************************************************************)
Count(text, w) == Cardinality({i \in 1..Len(text) : text[i] = w})

\* how many times _build_aux_indexes appends occ to keyword_index[w]
KeywordHits(occ, w) ==
    Count(Lower(occ.title), w)
    + SumSeq([j \in 1..Len(occ.synonyms) |-> Count(Lower(occ.synonyms[j]), w)])

\* title_index: the record a lowercased title resolves to
TitleIndex(occupations, title_lc) ==
    CHOOSE i \in 1..Len(occupations) :
        /\ Lower(occupations[i].title) = title_lc
        /\ \A j \in 1..Len(occupations) :
               Lower(occupations[j].title) = title_lc => j <= i

FallbackResult(occ, score, den, stage) ==
    [nco_code |-> occ.nco_code, title |-> occ.title, score |-> score,
     confidence |-> [num |-> 1, den |-> den], matched_synonyms |-> << >>,
     stage |-> stage, fetched |-> 0]

\* _keyword_fallback
KeywordFallback(occupations, query) ==
    LET words == Lower(SelectSeq(query, LAMBDA w : Len(w) > 2))
        hits(code) ==
            SumSeq([x \in 1..Len(words) |->
                SumSeq([i \in 1..Len(occupations) |->
                    IF occupations[i].nco_code = code
                    THEN KeywordHits(occupations[i], words[x]) ELSE 0])])
        codes == {c \in {occupations[i].nco_code : i \in 1..Len(occupations)} :
                     hits(c) > 0}
        before(d, c) ==
            hits(d) > hits(c) \/ (hits(d) = hits(c) /\ CodeRank(d) < CodeRank(c))
        ranked == [p \in 1..Cardinality(codes) |->
                      CHOOSE c \in codes :
                          Cardinality({d \in codes : before(d, c)}) + 1 = p]
    IN  [p \in 1..Min(10, Len(ranked)) |->
            FallbackResult(occupations[CodeMap(occupations, ranked[p])],
                           100 * hits(ranked[p]), 4, "keyword")]

\* difflib.get_close_matches(query.lower(), titles, n=5, cutoff=0.6): some
\* titles of the title index, best first
CloseMatches(occupations) ==
    LET titles == {Lower(occupations[i].title) : i \in 1..Len(occupations)}
    IN  {close \in UNION {[1..m -> titles] : m \in 0..Min(5, MaxClose)} :
            \A a, b \in DOMAIN close : a # b => close[a] # close[b]}

\* _fuzzy_fallback
FuzzyFallback(occupations, close) ==
    [p \in 1..Len(close) |->
        FallbackResult(occupations[TitleIndex(occupations, close[p])], 0, 5, "fuzzy")]

\* "Merge ensuring uniqueness"
RECURSIVE MergeFallback(_, _, _)
MergeFallback(results, extra, k) ==
    IF extra = << >> THEN results
    ELSE IF /\ \A x \in 1..Len(results) : results[x].nco_code # Head(extra).nco_code
            /\ Len(results) < k
         THEN MergeFallback(Append(results, Head(extra)), Tail(extra), k)
         ELSE MergeFallback(results, Tail(extra), k)

\* "Compute matched_synonyms for final results"
MatchedSynonyms(occ, query) ==
    Take((IF IsInfix(Lower(query), Lower(occ.title)) THEN << occ.title >> ELSE << >>)
         \o SelectSeq(occ.synonyms,
                      LAMBDA syn : \/ IsInfix(Lower(query), Lower(syn))
                                   \/ IsInfix(Lower(syn), Lower(query))),
         3)

Annotate(occupations, query, results) ==
    [x \in 1..Len(results) |->
        [results[x] EXCEPT !.matched_synonyms =
            MatchedSynonyms(occupations[CodeMap(occupations, results[x].nco_code)],
                            query)]]

\* NCOEngine.search after the loop: lines 266-294
FinishSearch(occupations, query, k, results, close) ==
    Annotate(occupations, query,
        IF results = << >> \/ ConfBelow(results[1].confidence, 30)
        THEN MergeFallback(results,
                           KeywordFallback(occupations, query)
                           \o FuzzyFallback(occupations, close), k)
        ELSE results)

(***************************************************************************)
(* One search request, step by step                                        *)
(***************************************************************************)
\* engine.search(query, k) as the handler calls it, and engine.search with a
\* hierarchy filter as a direct caller may
Requests ==
    [mode : {"handler"}, n : 1..Min(MaxN, Len(SearchCatalog)), query : Queries,
     k : 1..MaxK, division_filter : {"none"}, language : {"en", "hi"},
     enable_translation : BOOLEAN]
    \cup
    [mode : {"direct"}, n : 1..Min(MaxN, Len(SearchCatalog)), query : Queries,
     k : 1..MaxK, division_filter : {"none", "7", "2"}, language : {"en"},
     enable_translation : {FALSE}]

\* the snapshot size at which four candidates are fetched: the top softmax
\* confidence can then be as low as 0.25
StagesN == Min(MaxN + 1, Len(SearchCatalog))

occupations == SubSeq(SearchCatalog, 1, request.n)

\* the query of the running engine.search call
CallQuery ==
    IF call = "original" THEN request.query
    ELSE TranslateQuery(request.query, request.language)

\* every list Stage A can produce, per catalog prefix, k and filter: one for
\* each vector of raw similarities the index may hold against a query
StageAOutcomes ==
    [n \in 1..StagesN, k \in 1..MaxK, f \in {"none", "7", "2"} |->
        { VectorStage(SubSeq(SearchCatalog, 1, n), sc, k, f) : sc \in [1..n -> ScoreSet] }]

StageA == StageAOutcomes[request.n, request.k, request.division_filter]

\* "If we gathered enough high-confidence results, stop fallback loop"
StopsLoop(temp_results) ==
    temp_results # << >> /\ ConfAtLeast(temp_results[1].confidence, 50)

\* the loop's first attempt: the query itself
EngineFirstAttempt ==
    /\ spc = "search"
    /\ \E temp_results \in StageA :
             /\ engine_results' = temp_results
             /\ pending' = IF StopsLoop(temp_results) THEN {}
                           ELSE ExpandQueryWithSynonyms(CallQuery) \ {CallQuery}
    /\ spc' = "variants"
    /\ UNCHANGED << request, call, response, serverVars, otherVars >>

\* a later attempt: one of the variants, in the order the set yields them
EngineVariantAttempt ==
    /\ spc = "variants"
    /\ \E q \in pending, temp_results \in StageA :
             /\ engine_results' = IF StopsLoop(temp_results) \/ engine_results = << >>
                           THEN temp_results ELSE engine_results
             /\ pending' = IF StopsLoop(temp_results) THEN {} ELSE pending \ {q}
    /\ UNCHANGED << request, spc, call, response, serverVars, otherVars >>

\* the loop is over: fallback, annotation, return
EngineReturn ==
    /\ spc = "variants"
    /\ pending = {}
    /\ \E close \in IF engine_results = << >> \/ ConfBelow(engine_results[1].confidence, 30)
                    THEN CloseMatches(occupations) ELSE {<< >>} :
         engine_results' = FinishSearch(occupations, CallQuery, request.k, engine_results, close)
    /\ spc' = "returned"
    /\ UNCHANGED << request, call, pending, response, serverVars, otherVars >>

\* a direct caller takes the list as it is
DirectReturn ==
    /\ spc = "returned"
    /\ request.mode = "direct"
    /\ response' = [NoResponse EXCEPT !.results = engine_results, !.status = 200]
    /\ spc' = "done"
    /\ UNCHANGED << request, call, pending, engine_results, serverVars, otherVars >>

\* "Check for low confidence"
LowConfidence(res) ==
    IF res # << >>
    THEN res[1].score < LOWCONF_TOPSIM \/ ConfBelow(res[1].confidence, LOWCONF_SOFTMAX)
    ELSE TRUE

\* the handler after its first engine.search: the gate, and whether the
\* translated query is searched
HandlerGate ==
    /\ spc = "returned"
    /\ request.mode = "handler"
    /\ call = "original"
    /\ LET low == LowConfidence(engine_results)
           rescue == /\ low
                     /\ request.enable_translation
                     /\ request.language # "en"
                     /\ TranslateQuery(request.query, request.language) # request.query
       IN  /\ response' = [results |-> engine_results, low_confidence |-> low,
                           translated |-> FALSE, status |-> IF rescue THEN 0 ELSE 200]
           /\ spc' = IF rescue THEN "search" ELSE "done"
           /\ call' = IF rescue THEN "translated" ELSE call
           /\ engine_results' = IF rescue THEN << >> ELSE engine_results
    /\ UNCHANGED << request, pending, serverVars, otherVars >>

\* an adoption that keeps the flag of the untranslated list
AdoptTranslatedStale(prev, translated_results) ==
    [prev EXCEPT !.results = translated_results, !.translated = TRUE, !.status = 200]

\* the translated list replaces the results
AdoptTranslated(prev, translated_results) ==
    [results |-> translated_results, low_confidence |-> LowConfidence(translated_results),
     translated |-> TRUE, status |-> 200]

\* an adoption on equal top scores as well
TranslatedWinsOnTie(prev, translated_results) ==
    translated_results[1].score >= prev.results[1].score

\* translated_results[0]['score'] > top_score
TranslatedWins(prev, translated_results) ==
    translated_results[1].score > prev.results[1].score

\* the handler after engine.search(translated_query): top_score is unbound
\* when the first list was empty
HandlerRescue ==
    /\ spc = "returned"
    /\ request.mode = "handler"
    /\ call = "translated"
    /\ response' =
         IF engine_results = << >> THEN [response EXCEPT !.status = 200]
         ELSE IF response.results = << >> THEN [response EXCEPT !.status = 500]
         ELSE IF TranslatedWins(response, engine_results)
              THEN AdoptTranslated(response, engine_results)
              ELSE [response EXCEPT !.status = 200]
    /\ spc' = "done"
    /\ UNCHANGED << request, call, pending, engine_results, serverVars, otherVars >>

SearchInit ==
    /\ request \in Requests
    /\ spc = "search"
    /\ call = "original"
    /\ pending = {}
    /\ engine_results = << >>
    /\ response = NoResponse

NextSearch ==
    \/ EngineFirstAttempt
    \/ EngineVariantAttempt
    \/ EngineReturn
    \/ DirectReturn
    \/ HandlerGate
    \/ HandlerRescue

InitSearch == ServerInit /\ enhancedFile = NoFile /\ SearchInit /\ RepeatIdle /\ HttpIdle

SpecSearch == InitSearch /\ [][NextSearch]_vars

(***************************************************************************)
(* _keyword_fallback on its own                                            *)
(***************************************************************************)
\* words a query is made of, and the longest query
KeywordVocabulary == {"welder", "Welder", "arc", "it", "tutor", "gas"}
MaxWords == 2

KeywordQueries == UNION {[1..m -> KeywordVocabulary] : m \in 0..MaxWords}

KeywordRequests ==
    [mode : {"keyword"}, n : 1..Min(MaxN, Len(SearchCatalog)), query : KeywordQueries,
     k : {1}, division_filter : {"none"}, language : {"en"},
     enable_translation : {FALSE}]

KeywordInit ==
    /\ request \in KeywordRequests
    /\ spc = "search"
    /\ call = "original"
    /\ pending = {}
    /\ engine_results = << >>
    /\ response = NoResponse

\* self._keyword_fallback(query)
KeywordFallbackCall ==
    /\ spc = "search"
    /\ request.mode = "keyword"
    /\ engine_results' = KeywordFallback(occupations, request.query)
    /\ spc' = "done"
    /\ UNCHANGED << request, call, pending, response, serverVars, otherVars >>

NextKeyword == KeywordFallbackCall

InitKeyword == ServerInit /\ enhancedFile = NoFile /\ KeywordInit /\ RepeatIdle /\ HttpIdle

SpecKeyword == InitKeyword /\ [][NextKeyword]_vars

(***************************************************************************)
(* One /search request on a snapshot of StagesN records                    *)
(***************************************************************************)
StageRequests ==
    [mode : {"handler"}, n : {StagesN}, query : {<< "welder" >>, << "darzi" >>},
     k : 1..MaxK, division_filter : {"none"}, language : {"en", "hi"},
     enable_translation : BOOLEAN]

StagesInit ==
    /\ request \in StageRequests
    /\ spc = "search"
    /\ call = "original"
    /\ pending = {}
    /\ engine_results = << >>
    /\ response = NoResponse

\* the handler's steps: it never passes a filter, and no direct caller runs
NextStages ==
    \/ EngineFirstAttempt
    \/ EngineVariantAttempt
    \/ EngineReturn
    \/ HandlerGate
    \/ HandlerRescue

InitStages == ServerInit /\ enhancedFile = NoFile /\ StagesInit /\ RepeatIdle /\ HttpIdle

SpecStages == InitStages /\ [][NextStages]_vars

(***************************************************************************)
(* The same query searched again on the same snapshot                      *)
(***************************************************************************)
\* searches of the same query followed in one behaviour
MaxCalls == 2

\* the catalog of the snapshot: the first three records
RepeatCatalog == SubSeq(SearchCatalog, 1, Min(3, Len(SearchCatalog)))

\* a query with two variants in the synonym bank, and one with none
RepeatQueries == { << "healthcare", "worker" >>, << "welder" >> }

\* difflib.get_close_matches of these queries against the titles of
\* RepeatCatalog: no title reaches the 0.6 cutoff
RepeatClose == << >>

\* the orders list(set(variants)) may yield: the string hashes are seeded anew
\* in every process
HashOrders(query) ==
    LET variants == ExpandQueryWithSynonyms(query)
        m == Cardinality(variants)
    IN  {o \in [1..m -> variants] : \A a, b \in 1..m : a # b => o[a] # o[b]}

\* the loop of NCOEngine.search over candidate_queries + variants: the first
\* attempt whose top confidence reaches 0.5 wins, else the first non-empty list
RECURSIVE VariantLoop(_, _, _, _)
VariantLoop(queue, sims, k, results) ==
    IF queue = << >> THEN results
    ELSE LET temp_results == VectorStage(RepeatCatalog, sims[Head(queue)], k, "none")
         IN  IF StopsLoop(temp_results) THEN temp_results
             ELSE VariantLoop(Tail(queue), sims, k,
                              IF results = << >> THEN temp_results ELSE results)

\* NCOEngine.search(query, k) as a function of the snapshot and of the order
\* the variants come in
NCOEngineSearch(query, k, sims, order) ==
    FinishSearch(RepeatCatalog, query, k,
                 VariantLoop(<< query >> \o SelectSeq(order, LAMBDA q : q # query),
                             sims, k, << >>),
                 RepeatClose)

\* a snapshot and a process serving it: the index holds one vector of
\* similarities per string the query expands to
RepeatInit ==
    /\ \E query \in RepeatQueries, k \in 1..MaxK :
         /\ \E sims \in [ExpandQueryWithSynonyms(query) ->
                            [1..Len(RepeatCatalog) -> ScoreSet]] :
              snapshot = [query |-> query, k |-> k, sims |-> sims]
         /\ hashOrder \in HashOrders(query)
    /\ answers = << >>

\* the process is restarted on the same index and catalog files
RepeatRestart ==
    /\ Len(answers) < MaxCalls
    /\ hashOrder' \in HashOrders(snapshot.query) \ {hashOrder}
    /\ UNCHANGED << snapshot, answers, serverVars, searchVars, httpVars >>

\* engine.search(query, k)
RepeatSearch ==
    /\ Len(answers) < MaxCalls
    /\ answers' = Append(answers, NCOEngineSearch(snapshot.query, snapshot.k,
                                                  snapshot.sims, hashOrder))
    /\ UNCHANGED << snapshot, hashOrder, serverVars, searchVars, httpVars >>

InitRepeat == ServerInit /\ enhancedFile = NoFile /\ SearchIdle /\ RepeatInit /\ HttpIdle

NextRepeat ==
    \/ RepeatRestart
    \/ RepeatSearch

SpecRepeat == InitRepeat /\ [][NextRepeat]_vars

(***************************************************************************)
(* POST /search through the middleware, the validation and the limiter     *)
(***************************************************************************)
\* requests followed in one behaviour
MaxClock == 3

\* RATE_LIMIT_SEARCH, "<RateLimit>/minute"
RateLimit == 2

\* RequestSizeLimitMiddleware(max_size=10_240)
MaxBodySize == 10240

\* how a JSON body arrives: with a Content-Length header or chunked, and
\* under which JSON media type
Framings ==
    { [content_type |-> "application/json", has_length |-> TRUE],
      [content_type |-> "application/json", has_length |-> FALSE],
      [content_type |-> "application/vnd.api+json", has_length |-> TRUE] }

\* POST /search requests: the client address, the framing, the size of the
\* body in bytes, len(query) and k
SearchRequests ==
    [key : Keys, framing : Framings, size : {600, MaxBodySize, MaxBodySize + 1},
     query_len : {0, 1, 500, 501}, k : {0, 1, 20, 21}]

\* rate_limit_key with ALLOW_TEST_RATE_KEY unset: get_remote_address
RateLimitKey(req) == req.key

\* RequestSizeLimitMiddleware.dispatch answers 413 itself (the method is POST)
SizeLimitRejects(req) ==
    /\ req.framing.content_type = "application/json"
    /\ req.framing.has_length
    /\ req.size > MaxBodySize

\* a validation whose upper bounds are one too high
ValidSearchRequestOffByOne(req) ==
    /\ 1 <= req.query_len /\ req.query_len <= 501
    /\ 1 <= req.k /\ req.k <= 21

\* SearchRequest: query min_length=1, max_length=500; k ge=1, le=20
ValidSearchRequest(req) ==
    /\ 1 <= req.query_len /\ req.query_len <= 500
    /\ 1 <= req.k /\ req.k <= 20

\* a limiter that lets one request too many through
LimitReachedLate(count) == count > RateLimit

\* the limiter's test of the key's window before the endpoint runs
LimitReached(count) == count >= RateLimit

\* bytes of the line the handler appends to search.jsonl
SearchLineLen(req) == 400 + req.query_len

\* the status the request ends with
SearchRequestStatus(req) ==
    IF SizeLimitRejects(req) THEN 413
    ELSE IF ~ValidSearchRequest(req) THEN 422
    ELSE IF LimitReached(rate_hits[RateLimitKey(req)]) THEN 429
    ELSE SearchStatus

\* open(search_file, "ab") and f.write stand in the handler without a try:
\* when the append fails the exception leaves the handler, and the server
\* error middleware answers 500
StatusAfterAppend(status, append_ok) ==
    IF status = 200 /\ ~append_ok THEN 500 ELSE status

\* which responses pass through SecurityHeadersMiddleware.dispatch.  The
\* middleware added last is outermost: CORS, then the size limit, then the
\* security headers, then the exception handlers and the route.  The 413 is
\* made by the size limit, outside the security headers; an exception that
\* leaves the handler passes through call_next as an exception, and its 500
\* is made by the server error middleware, outside all of them.
SecurityHeadersAdded(status) == status \notin {413, 500}

\* one POST /search, from the outermost middleware to the response
SearchRequestHandled(req, append_ok) ==
    /\ clock < MaxClock
    /\ append_ok \/ SearchRequestStatus(req) = 200
    /\ clock' = clock + 1
    /\ LET admitted == SearchRequestStatus(req)
           status == StatusAfterAppend(admitted, append_ok)
       IN  /\ rate_hits' = IF admitted \in {200, 503}
                           THEN [rate_hits EXCEPT ![RateLimitKey(req)] = @ + 1]
                           ELSE rate_hits
           /\ searchLog' = IF status = 200
                           THEN Append(searchLog, [t |-> clock', len |-> SearchLineLen(req)])
                           ELSE searchLog
           /\ reply' = [op |-> "search", status |-> status, at |-> clock',
                        request |-> req, ran |-> admitted = 200,
                        logged |-> status = 200,
                        security_headers |-> SecurityHeadersAdded(status)]
    /\ UNCHANGED << feedbackLog, ADMIN_TOKEN, serverVars, searchVars, repeatVars >>

\* the window of a key ends: a minute after its first hit
WindowExpires(key) ==
    /\ rate_hits[key] > 0
    /\ rate_hits' = [rate_hits EXCEPT ![key] = 0]
    /\ UNCHANGED << searchLog, feedbackLog, clock, reply, ADMIN_TOKEN, serverVars,
                    searchVars, repeatVars >>

InitHTTP == ServerInit /\ enhancedFile = NoFile /\ SearchIdle /\ RepeatIdle /\ HttpIdle

NextHTTP ==
    \/ \E req \in SearchRequests, append_ok \in BOOLEAN :
          SearchRequestHandled(req, append_ok)
    \/ \E key \in Keys : WindowExpires(key)

SpecHTTP == InitHTTP /\ [][NextHTTP]_vars

(***************************************************************************)
(* The admin endpoints                                                     *)
(***************************************************************************)
\* lines each log holds at startup, and admin requests followed
MaxLog == 2
MaxAdmin == 2

Secret == "s3cret"

\* what a request carries: the x-admin-token header and the token query
\* parameter ("": not sent)
Credentials == [header : {"", "wrong", Secret}, token : {"", Secret}]

\* require_admin: passes when no token is configured, else compares
\* headers.get("x-admin-token") or query_params.get("token")
RequireAdmin(cred) ==
    \/ ADMIN_TOKEN = ""
    \/ (IF cred.header # "" THEN cred.header ELSE cred.token) = ADMIN_TOKEN

\* the 401 of require_admin: nothing but the response happens
Unauthorized(op, cred) ==
    /\ reply' = [op |-> op, status |-> 401, at |-> clock', cred |-> cred]
    /\ UNCHANGED << rate_hits, searchLog, feedbackLog, ADMIN_TOKEN, serverVars >>

\* every admin request: time passes, and the other specifications' state stays
AdminStep ==
    /\ clock < MaxLog + MaxAdmin
    /\ clock' = clock + 1
    /\ UNCHANGED << searchVars, repeatVars >>

\* --- POST /admin/update-synonyms ---------------------------------------
\* an update names a code and the synonyms to add and to remove
Updates == [nco_code : {WelderCode, UnknownCode}, add : SUBSET AdminSyns,
            remove : SUBSET AdminSyns]

\* a batch: one or two updates
Batches == { << u >> : u \in Updates } \cup { << u, w >> : u, w \in Updates }

\* what the loop has done so far
NoChanges(occs) ==
    [occupations |-> occs, updated |-> 0, invalid_codes |-> << >>,
     changes |-> << >>]

\* the entry an update leaves in the audit trail
Changes(occ, update) ==
    [nco_code |-> update.nco_code,
     added |-> update.add \ occ.synonyms,
     removed |-> update.remove \cap (occ.synonyms \cup update.add)]

\* an update step that counts every update that names a synonym to add
ApplyOneCountsRequests(acc, update) ==
    LET i == CodeMap(acc.occupations, update.nco_code)
    IN  IF i = 0
        THEN [acc EXCEPT !.invalid_codes = Append(@, update.nco_code)]
        ELSE LET occ == acc.occupations[i]
                 ch == Changes(occ, update)
             IN  [occupations |-> [acc.occupations EXCEPT
                                      ![i] = ApplyUpdate(occ, update.add, update.remove)],
                  updated |-> acc.updated + (IF update.add # {} THEN 1 ELSE 0)
                                          + (IF ch.removed # {} THEN 1 ELSE 0),
                  invalid_codes |-> acc.invalid_codes,
                  changes |-> IF ch.added # {} \/ ch.removed # {}
                              THEN Append(acc.changes, ch) ELSE acc.changes]

\* an update step at which an unknown code ends the batch
ApplyOneStopsAtInvalid(acc, update) ==
    LET i == CodeMap(acc.occupations, update.nco_code)
    IN  IF i = 0 \/ acc.invalid_codes # << >>
        THEN [acc EXCEPT !.invalid_codes = Append(@, update.nco_code)]
        ELSE LET occ == acc.occupations[i]
                 ch == Changes(occ, update)
             IN  [occupations |-> [acc.occupations EXCEPT
                                      ![i] = ApplyUpdate(occ, update.add, update.remove)],
                  updated |-> acc.updated
                              + UpdatedCount(occ, update.add, update.remove),
                  invalid_codes |-> acc.invalid_codes,
                  changes |-> IF ch.added # {} \/ ch.removed # {}
                              THEN Append(acc.changes, ch) ELSE acc.changes]

\* one turn of the loop over request.updates
ApplyOne(acc, update) ==
    LET i == CodeMap(acc.occupations, update.nco_code)
    IN  IF i = 0
        THEN [acc EXCEPT !.invalid_codes = Append(@, update.nco_code)]
        ELSE LET occ == acc.occupations[i]
                 ch == Changes(occ, update)
             IN  [occupations |-> [acc.occupations EXCEPT
                                      ![i] = ApplyUpdate(occ, update.add, update.remove)],
                  updated |-> acc.updated
                              + UpdatedCount(occ, update.add, update.remove),
                  invalid_codes |-> acc.invalid_codes,
                  changes |-> IF ch.added # {} \/ ch.removed # {}
                              THEN Append(acc.changes, ch) ELSE acc.changes]

\* the loop over request.updates
RECURSIVE ApplyBatch(_, _)
ApplyBatch(acc, updates) ==
    IF updates = << >> THEN acc
    ELSE ApplyBatch(ApplyOne(acc, Head(updates)), Tail(updates))

\* what the request before this one was, when it was a single update that
\* was carried out
NoPrior == [request |-> << >>, before |-> << >>]
Prior ==
    IF reply.op = "update-synonyms" /\ reply.status = 200 /\ Len(reply.request) = 1
    THEN [request |-> reply.request, before |-> reply.before]
    ELSE NoPrior

\* the handler: the file is rewritten only when something was counted
AdminUpdateSynonyms(cred, updates) ==
    /\ AdminStep
    /\ IF ~RequireAdmin(cred)
       THEN Unauthorized("update-synonyms", cred)
       ELSE LET done == ApplyBatch(NoChanges(dataFile), updates)
            IN  /\ dataFile' = IF done.updated > 0 THEN done.occupations
                               ELSE dataFile
                /\ reply' = [op |-> "update-synonyms", status |-> 200,
                             at |-> clock', cred |-> cred, request |-> updates,
                             before |-> dataFile, prior |-> Prior,
                             wrote |-> done.updated > 0,
                             body |-> [ok |-> TRUE, updated |-> done.updated,
                                       invalid_codes |-> done.invalid_codes,
                                       requires_reindex |-> done.updated > 0,
                                       changes |-> done.changes]]
                /\ UNCHANGED << rate_hits, searchLog, feedbackLog, ADMIN_TOKEN,
                                engine, is_reindexing, reindex_lock, lock_waiters,
                                enhancedFile, indexFile, metaFile, rpc, outcome,
                                builds, history, lastSearch >>

\* --- utils/logs.py: read_logs_reverse ---------------------------------
\* A log file is a sequence of entries [t, len]: the line of entry i holds len
\* bytes and is followed by one newline.  Bytes are named by their offset, a
\* run of bytes by an interval << from, to >> (to excluded), and a byte string
\* read from the file by the sequence of the runs it is made of.
READ_CHUNK == 8192

\* the offset of the first byte of line i
RECURSIVE Offset(_, _)
Offset(file, i) ==
    IF i = 1 THEN 0 ELSE Offset(file, i - 1) + file[i - 1].len + 1

\* the offset of the newline that ends line i
LineEnd(file, i) == Offset(file, i) + file[i].len

FileSize(file) == IF file = << >> THEN 0 ELSE LineEnd(file, Len(file)) + 1

\* chunk + leftover: adjacent runs are one run, an empty chunk adds nothing
Concat(run, leftover) ==
    IF run[1] = run[2] THEN leftover
    ELSE IF leftover # << >> /\ leftover[1][1] = run[2]
         THEN << << run[1], leftover[1][2] >> >> \o Tail(leftover)
         ELSE << run >> \o leftover

\* (chunk + leftover).split(b'\n') for the chunk << from, to >>; leftover
\* holds no newline
Split(file, from, to, leftover) ==
    LET nl == {i \in 1..Len(file) : from <= LineEnd(file, i) /\ LineEnd(file, i) < to}
    IN  IF nl = {} THEN << Concat(<< from, to >>, leftover) >>
        ELSE LET lo == CHOOSE i \in nl : \A j \in nl : i <= j
                 hi == CHOOSE i \in nl : \A j \in nl : j <= i
             IN  [p \in 1..(hi - lo + 2) |->
                    IF p = 1 THEN Concat(<< from, LineEnd(file, lo) >>, << >>)
                    ELSE IF p = hi - lo + 2
                         THEN Concat(<< LineEnd(file, hi) + 1, to >>, leftover)
                         ELSE Concat(<< LineEnd(file, lo + p - 2) + 1,
                                        LineEnd(file, lo + p - 1) >>, << >>)]

\* json.loads(line): a whole line gives its entry.  A piece of a line does not
\* parse.  Bytes joined across a gap parse only when the text happens to be
\* well formed (glued), which takes the start of one line and the end of
\* another; what they give is no entry of the file.
NoEntry == [t |-> 0, len |-> 0]
Chimera == [t |-> -1, len |-> 0]
JsonLoads(file, line, glued) ==
    IF Len(line) = 1
    THEN LET at == {i \in 1..Len(file) :
                      line[1] = << Offset(file, i), LineEnd(file, i) >>}
         IN  IF at = {} THEN NoEntry ELSE file[CHOOSE i \in at : TRUE]
    ELSE IF /\ glued
            /\ \E i \in 1..Len(file) :
                 /\ line[1][1] = Offset(file, i)
                 /\ line[1][2] <= LineEnd(file, i)
            /\ \E i \in 1..Len(file) :
                 /\ line[Len(line)][1] > Offset(file, i)
                 /\ line[Len(line)][2] = LineEnd(file, i)
         THEN Chimera
         ELSE NoEntry

\* for line in reversed(lines[1:]): appendleft what parses, up to limit
RECURSIVE ParseLines(_, _, _, _, _, _)
ParseLines(file, lines, p, limit, logs, glued) ==
    IF p < 2 THEN logs
    ELSE LET entry == JsonLoads(file, lines[p], glued)
         IN  ParseLines(file, lines, p - 1, limit,
                        IF lines[p] # << >> /\ Len(logs) < limit /\ entry # NoEntry
                        THEN << entry >> \o logs ELSE logs,
                        glued)

\* f.read(min(chunk_size, f.tell())) just after f.seek(new_pos)
ChunkRead(chunk_size, new_pos) == Min(chunk_size, new_pos)

\* the while loop and the parse of what is left over
RECURSIVE ReadLoop(_, _, _, _, _, _, _)
ReadLoop(file, limit, chunk_size, pos, leftover, logs, glued) ==
    IF pos > 0 /\ Len(logs) < limit
    THEN LET new_pos == IF pos - chunk_size > 0 THEN pos - chunk_size ELSE 0
             to == Min(new_pos + ChunkRead(chunk_size, new_pos), FileSize(file))
             lines == Split(file, new_pos, to, leftover)
         IN  ReadLoop(file, limit, chunk_size, new_pos, lines[1],
                      ParseLines(file, lines, Len(lines), limit, logs, glued),
                      glued)
    ELSE LET entry == JsonLoads(file, leftover, glued)
         IN  IF leftover # << >> /\ Len(logs) < limit /\ entry # NoEntry
             THEN << entry >> \o logs ELSE logs

read_logs_reverse(file, limit, glued) ==
    IF FileSize(file) = 0 THEN << >>
    ELSE ReadLoop(file, limit, Min(FileSize(file), READ_CHUNK), FileSize(file),
                  << >>, << >>, glued)

\* --- GET /admin/logs, GET /admin/stats ---------------------------------
\* line lengths of the entries the logs hold at startup: a search entry, and
\* feedback entries with a short and with a long comment
SearchLens == {400}
FeedbackLens == {300, 8191}

\* the log files with up to MaxLog entries, written at times 1, 2, ...
LogFiles(lens) ==
    UNION { { [i \in 1..n |-> [t |-> i, len |-> f[i]]] : f \in [1..n -> lens] } :
            n \in 0..MaxLog }

LogFile(type) == IF type = "search" THEN searchLog ELSE feedbackLog

AdminGetLogs(cred, type, limit, glued) ==
    /\ AdminStep
    /\ IF ~RequireAdmin(cred)
       THEN Unauthorized("logs", cred)
       ELSE /\ reply' = [op |-> "logs", status |-> 200, at |-> clock',
                         cred |-> cred, type |-> type, limit |-> limit,
                         body |-> read_logs_reverse(LogFile(type), limit, glued)]
            /\ UNCHANGED << rate_hits, searchLog, feedbackLog, ADMIN_TOKEN,
                            serverVars >>

AdminGetStats(cred) ==
    /\ AdminStep
    /\ IF ~RequireAdmin(cred)
       THEN Unauthorized("stats", cred)
       ELSE /\ reply' = [op |-> "stats", status |-> 200, at |-> clock',
                         cred |-> cred,
                         body |-> [total_searches |-> Len(searchLog),
                                   total_feedback |-> Len(feedbackLog)]]
            /\ UNCHANGED << rate_hits, searchLog, feedbackLog, ADMIN_TOKEN,
                            serverVars >>

\* --- POST /admin/reindex ------------------------------------------------
\* an admitted request goes on as ReindexArrive; its response comes when the
\* rebuild has ended
AdminReindex(cred, r) ==
    /\ clock < MaxLog + MaxAdmin
    /\ IF RequireAdmin(cred)
       THEN ReindexArrive(r)
       ELSE AdminStep /\ Unauthorized("reindex", cred)

\* --- DELETE /admin/logs, DELETE /admin/purge-logs -----------------------
\* the since parameter: absent, not a date, a date and time without a zone,
\* or one with a zone ("Z" or an offset); log entries carry
\* datetime.utcnow().isoformat(), which has no zone
Sinces ==
    {[kind |-> "none", t |-> 0], [kind |-> "invalid", t |-> 0]}
    \cup [kind : {"naive", "aware"}, t : 1..(MaxLog + 1)]

\* kept_logs: the lines with log_time < since_date; comparing a time without
\* a zone to one with a zone raises, and the except clause skips the line
KeptLogs(log, since) ==
    IF since.kind = "aware" THEN << >>
    ELSE SelectSeq(log, LAMBDA e : e.t < since.t)

AdminDeleteLogs(cred, since) ==
    /\ AdminStep
    /\ IF ~RequireAdmin(cred)
       THEN Unauthorized("delete-logs", cred)
       ELSE /\ reply' = [op |-> "delete-logs", cred |-> cred, at |-> clock',
                         since |-> since,
                         status |-> IF since.kind = "invalid" THEN 400 ELSE 200,
                         body |-> IF since.kind = "none" THEN "error"
                                  ELSE IF since.kind = "invalid" THEN "detail"
                                  ELSE "success"]
            /\ IF since.kind \in {"none", "invalid"}
               THEN UNCHANGED << searchLog, feedbackLog >>
               ELSE /\ searchLog' = KeptLogs(searchLog, since)
                    /\ feedbackLog' = KeptLogs(feedbackLog, since)
            /\ UNCHANGED << rate_hits, ADMIN_TOKEN, serverVars >>

AdminPurgeLogs(cred) ==
    /\ AdminStep
    /\ IF ~RequireAdmin(cred)
       THEN Unauthorized("purge-logs", cred)
       ELSE /\ reply' = [op |-> "purge-logs", status |-> 200, at |-> clock',
                         cred |-> cred]
            /\ searchLog' = << >>
            /\ feedbackLog' = << >>
            /\ UNCHANGED << rate_hits, ADMIN_TOKEN, serverVars >>

InitAdmin ==
    /\ ServerInit
    /\ enhancedFile = NoFile
    /\ SearchIdle
    /\ RepeatIdle
    /\ rate_hits = [key \in Keys |-> 0]
    /\ searchLog \in LogFiles(SearchLens)
    /\ feedbackLog \in LogFiles(FeedbackLens)
    /\ clock = MaxLog
    /\ reply = NoReply
    /\ ADMIN_TOKEN \in {"", Secret}

NextAdmin ==
    \/ \E cred \in Credentials, type \in {"search", "feedback"},
          limit \in 1..(MaxLog + 1), glued \in BOOLEAN :
          AdminGetLogs(cred, type, limit, glued)
    \/ \E cred \in Credentials : AdminGetStats(cred)
    \/ \E cred \in Credentials, update \in Updates :
          AdminUpdateSynonyms(cred, << update >>)
    \/ \E cred \in Credentials, r \in ReindexReqs : AdminReindex(cred, r)
    \/ \E cred \in Credentials, since \in Sinces : AdminDeleteLogs(cred, since)
    \/ \E cred \in Credentials : AdminPurgeLogs(cred)

SpecAdmin == InitAdmin /\ [][NextAdmin]_vars

\* the catalog files an earlier run of the service can have left: the record
\* of WelderCode already carries some of the admin synonyms, or another one
StoredSyns == AdminSyns \cup {"welding operator"}
StoredCatalogs ==
    { [i \in 1..Len(InitialCatalog) |->
         IF InitialCatalog[i].nco_code = WelderCode
         THEN [InitialCatalog[i] EXCEPT !.synonyms = @ \cup syn]
         ELSE InitialCatalog[i]] : syn \in SUBSET StoredSyns }

\* the update-synonyms requests alone: the service has started on the index
\* built from the initial catalog, and the logs have been purged
InitSynonyms ==
    /\ dataFile \in StoredCatalogs
    /\ enhancedFile = NoFile
    /\ indexFile = BuildVectors(InitialCatalog)
    /\ metaFile = InitialCatalog
    /\ engine = NCOEngine(enhancedFile, indexFile, metaFile)
    /\ is_reindexing = FALSE
    /\ reindex_lock = 0
    /\ lock_waiters = << >>
    /\ rpc = [r \in ReindexReqs |-> "idle"]
    /\ outcome = [r \in ReindexReqs |-> 0]
    /\ proc = [r \in ReindexReqs |-> "none"]
    /\ procData = [r \in ReindexReqs |-> << >>]
    /\ arrivedDuring = [r \in ReindexReqs |-> FALSE]
    /\ engineBefore = [r \in ReindexReqs |-> NoEngine]
    /\ dataBefore = [r \in ReindexReqs |-> << >>]
    /\ lastSearch = NoSearch
    /\ SearchIdle
    /\ RepeatIdle
    /\ rate_hits = [key \in Keys |-> 0]
    /\ searchLog = << >>
    /\ feedbackLog = << >>
    /\ clock = MaxLog
    /\ reply = NoReply
    /\ ADMIN_TOKEN \in {"", Secret}

NextSynonyms ==
    \E cred \in {c \in Credentials : c.token = "" /\ c.header # "wrong"},
       updates \in Batches :
       AdminUpdateSynonyms(cred, updates)

SpecSynonyms == InitSynonyms /\ [][NextSynonyms]_vars

(***************************************************************************)
(* Claims about the service process (checked under Spec)                   *)
(***************************************************************************)
\* code_lookup of an engine: the record a code resolves to (0: unknown code)
CodeLookup(e, nco_code) == CodeMap(e.occupations, nco_code)

\* the step in which reindex request r returns with one of the given statuses
ReindexReturns(r, statuses) ==
    /\ rpc[r] = "communicate"
    /\ rpc'[r] = "done"
    /\ outcome'[r] \in statuses

C2_SecondReindexFailsFast ==
    \A r \in ReindexReqs :
        arrivedDuring[r] =>
            /\ rpc[r] # "wait_lock"
            /\ proc[r] = "none"
            /\ rpc[r] = "done" => outcome[r] = 409

\* C3: at no moment are two build_index.py subprocesses started by
\* /admin/reindex running at the same time.
C3_AtMostOneBuildRunning ==
    Cardinality({r \in ReindexReqs : proc[r] \in ProcRunning}) <= 1

\* C4: a reindex that ends by timeout (504), by a non-zero build exit code or
\* by a failed engine reload (500) leaves the global engine the engine it was
\* when the request began.
C4_FailedReindexKeepsEngine ==
    [][\A r \in ReindexReqs :
          ReindexReturns(r, {500, 504}) => engine' = engineBefore[r]]_vars

\* C4 witness: a reindex failed in reload_engine after its build rewrote the
\* artifacts, so a reload would have changed the engine.
C4_Witness ==
    \E r \in ReindexReqs :
        /\ outcome[r] = 500
        /\ proc[r] = "exit0"
        /\ engine # NCOEngine(enhancedFile, indexFile, metaFile)

\* C5: once a reindex has returned the timeout outcome (504) and cleared
\* is_reindexing, the build it started is no longer running (and so can no
\* longer write nco.index or meta.json).
C5_TimeoutAbortsBuild ==
    \A r \in ReindexReqs : outcome[r] = 504 => proc[r] \notin ProcRunning

\* C6: in every engine that becomes current, the index holds as many vectors
\* as there are occupation records and vector i is the embedding of
\* occupations[i].
C6_VectorsMatchOccupations ==
    engine.loaded =>
        /\ Len(engine.index) = Len(engine.occupations)
        /\ \A i \in 1..Len(engine.occupations) :
               engine.index[i] = Embed(CreatePassage(engine.occupations[i]))

\* C7: when a reindex requested after update-synonyms added s to code c
\* returns success, the engine it publishes holds s in its record for c
\* (unless s was removed from the catalog again meanwhile).
C7_ReindexPublishesSynonym ==
    [][\A r \in ReindexReqs :
          ReindexReturns(r, {200}) =>
              \A i \in 1..Len(dataBefore[r]) :
                  \A s \in dataBefore[r][i].synonyms \cap dataFile[i].synonyms :
                      LET j == CodeLookup(engine', dataBefore[r][i].nco_code)
                      IN  j # 0 /\ s \in engine'.occupations[j].synonyms]_vars

\* C29: every reindex request that has set is_reindexing (and awaits its
\* build) eventually sets it back to false, whatever the outcome: success,
\* build failure, reload failure or timeout
C29_ReindexEventuallyClears ==
    \A r \in ReindexReqs : (rpc[r] = "communicate") ~> (rpc[r] = "done" /\ ~is_reindexing)

\* every request has returned, one of them with a timeout and one with a
\* failure after a build that exited normally (a reload failure), and the flag
\* is clear
C29_Witness ==
    /\ ~is_reindexing
    /\ \A r \in ReindexReqs : rpc[r] = "done"
    /\ \E r \in ReindexReqs : outcome[r] = 504
    /\ \E r \in ReindexReqs : outcome[r] = 500 /\ proc[r] = "exit0"

\* C30: update-synonyms changes the catalog file only: the step that rewrites
\* it leaves the engine and the index artifacts as they are, and the engine
\* searches are served from changes only in the step in which a reindex
\* returns success
C30_UpdateLeavesEngine ==
    [][/\ dataFile' # dataFile =>
             /\ engine' = engine
             /\ indexFile' = indexFile
             /\ metaFile' = metaFile
             /\ enhancedFile' = enhancedFile
       /\ engine' # engine => \E r \in ReindexReqs : ReindexReturns(r, {200})]_vars

\* the catalog was updated, a reindex has failed since and none has succeeded,
\* and a search was served from an engine without the new synonym
C30_Witness ==
    /\ dataFile # InitialCatalog
    /\ \A r \in ReindexReqs : outcome[r] # 200
    /\ \E r \in ReindexReqs : outcome[r] = 500
    /\ lastSearch.status = 200
    /\ \A i \in 1..Len(engine.occupations) :
           engine.occupations[i].synonyms \cap AdminSyns = {}

(***************************************************************************)
(* Claims about one search request (checked under SpecSearch)              *)
(***************************************************************************)
\* the request is answered: the handler's 200 response, or the list a direct
\* caller of NCOEngine.search receives
Answered == spc = "done" /\ response.status = 200

Returned == response.results

VectorResults == SelectSeq(Returned, LAMBDA r : r.stage = "vector")

\* the sum of the confidences of a list, over the common denominator of the
\* softmax of its vector results and the sentinels 1/4 and 1/5
ConfidenceSum(res) ==
    LET vec == SelectSeq(res, LAMBDA r : r.stage = "vector")
        den == 20 * (IF vec = << >> THEN 1 ELSE vec[1].confidence.den)
    IN  [num |-> SumSeq([x \in 1..Len(res) |->
                            res[x].confidence.num * (den \div res[x].confidence.den)]),
         den |-> den]

ConfidencesInUnitInterval ==
    \A x \in 1..Len(Returned) :
        /\ Returned[x].confidence.den > 0
        /\ 0 <= Returned[x].confidence.num
        /\ Returned[x].confidence.num <= Returned[x].confidence.den

\* C8: in every 200 response of /search, low_confidence is true exactly when
\* the returned list is empty, or its top score is below LOWCONF_TOPSIM, or its
\* top confidence is below LOWCONF_SOFTMAX, also after a translated list was
\* adopted
C8_LowConfidenceOfReturnedList ==
    (Answered /\ request.mode = "handler") =>
        (response.low_confidence <=>
            \/ Returned = << >>
            \/ Returned[1].score < LOWCONF_TOPSIM
            \/ 100 * Returned[1].confidence.num
                   < LOWCONF_SOFTMAX * Returned[1].confidence.den)

\* a low-confidence first list was replaced by a translated list that is not
C8_Witness ==
    /\ Answered
    /\ request.mode = "handler"
    /\ response.translated
    /\ ~response.low_confidence

\* C9: the returned list has at most k entries and no nco_code appears in it
\* more than once
C9_AtMostKDistinctCodes ==
    Answered =>
        /\ Len(Returned) <= request.k
        /\ \A x, y \in 1..Len(Returned) :
               x # y => Returned[x].nco_code # Returned[y].nco_code

HandlerAnswers ==
    request.mode = "handler" /\ spc' = "done" /\ spc # "done" /\ response'.status = 200

\* the list of the untranslated query, as the handler holds it at this step
UntranslatedResults == IF call = "original" THEN engine_results ELSE response.results

\* C27: a response says translated = true only if translation is enabled, the
\* request language is not English, and the list returned is the translated
\* query's list with a top raw similarity strictly above that of the
\* untranslated query's list; otherwise the untranslated query's list is
\* returned with translated = false
C27_TranslatedOnlyWhenStrictlyBetter ==
    [][HandlerAnswers =>
          IF response'.translated
          THEN /\ request.enable_translation
               /\ request.language # "en"
               /\ call = "translated"
               /\ response'.results = engine_results
               /\ engine_results # << >>
               /\ UntranslatedResults # << >>
               /\ engine_results[1].score > UntranslatedResults[1].score
          ELSE response'.results = UntranslatedResults]_vars

\* a response that carries the translated query's list
C27_Witness == Answered /\ request.mode = "handler" /\ response.translated

\* the returned list holds a keyword or fuzzy result
Merged == \E x \in 1..Len(Returned) : Returned[x].stage # "vector"

\* the keyword fallback has a record the vector results lack, and the list
\* has room for it
KeywordCandidateFits ==
    /\ Len(VectorResults) < request.k
    /\ \E c \in 1..Len(KeywordFallback(occupations, request.query)) :
           \A x \in 1..Len(VectorResults) :
               VectorResults[x].nco_code
                   # KeywordFallback(occupations, request.query)[c].nco_code

\* C24: engine.search merges keyword and fuzzy results into its list if and
\* only if the vector list is empty or its top raw similarity is below 0.3
C24_FallbackIffTopScoreBelow ==
    (Answered /\ request.mode = "direct") =>
        LET due == VectorResults = << >> \/ VectorResults[1].score < 30
        IN  /\ Merged => due
            /\ (due /\ KeywordCandidateFits) => Merged

\* this step is NCOEngine.search applying its lexical fallback (Stage D)
LexicalFallbackStep ==
    /\ spc = "variants" /\ spc' = "returned"
    /\ engine_results = << >> \/ ConfBelow(engine_results[1].confidence, 30)

\* C25: within one /search request the translation rescue (Stage C) is
\* decided before the lexical fallback (Stage D): when the fallback is
\* applied, the handler has already been through its translation decision
C25_RescueDecidedBeforeFallback ==
    [][(LexicalFallbackStep /\ request.mode = "handler") => response # NoResponse]_vars

(***************************************************************************)
(* Claims about the keyword fallback (checked under SpecKeyword)           *)
(***************************************************************************)
\* the query tokens _keyword_fallback looks up
LongTokens == Lower(SelectSeq(request.query, LAMBDA w : Len(w) > 2))

\* how many of the tokens are found under a record of this code
MatchingTokens(nco_code) ==
    Cardinality({x \in 1..Len(LongTokens) :
        \E i \in 1..Len(occupations) :
            /\ occupations[i].nco_code = nco_code
            /\ KeywordHits(occupations[i], LongTokens[x]) > 0})

\* C26: the keyword fallback lists its records by match count descending,
\* ties by code ascending, each with confidence 0.25 and with the number of
\* query tokens of three letters or more that match the record as score (a
\* token counts once however many words of the record contain it); a query
\* without such a token gets the empty list
C26_KeywordFallbackScores ==
    (spc = "done" /\ request.mode = "keyword") =>
        /\ \A p \in 1..Len(engine_results) :
              /\ engine_results[p].confidence = [num |-> 1, den |-> 4]
              /\ engine_results[p].score = 100 * MatchingTokens(engine_results[p].nco_code)
        /\ \A p, q \in 1..Len(engine_results) :
              p < q =>
                \/ engine_results[p].score > engine_results[q].score
                \/ /\ engine_results[p].score = engine_results[q].score
                   /\ CodeRank(engine_results[p].nco_code) < CodeRank(engine_results[q].nco_code)
        /\ LongTokens = << >> => engine_results = << >>

\* the first record of the catalog that carries the code
FirstWithCode(nco_code) ==
    CHOOSE i \in 1..Len(occupations) :
        /\ occupations[i].nco_code = nco_code
        /\ \A j \in 1..Len(occupations) : occupations[j].nco_code = nco_code => i <= j

\* C28: when several records share a code, the by-code lookup resolves the
\* code to the first of them: a keyword result carries the title of the
\* first record with its code
C28_FirstOccurrenceWins ==
    (spc = "done" /\ request.mode = "keyword") =>
        \A p \in 1..Len(engine_results) :
            engine_results[p].title
                = occupations[FirstWithCode(engine_results[p].nco_code)].title

(***************************************************************************)
(* Claims about repeated searches (checked under SpecRepeat)               *)
(***************************************************************************)
\* C11: the same query with the same k, searched twice on the same snapshot,
\* gets the same list (codes, order, scores, confidences), whatever order the
\* set of variants is iterated in
C11_RepeatedSearchSameResults ==
    \A a, b \in 1..Len(answers) : answers[a] = answers[b]

\* the list Stage A gives for one of the strings the query expands to
AttemptResults(q) == VectorStage(RepeatCatalog, snapshot.sims[q], snapshot.k, "none")

\* the highest top raw similarity among the lists of the query and its variants
BestTopScore ==
    LET tops == {AttemptResults(q)[1].score :
                    q \in ExpandQueryWithSynonyms(snapshot.query)}
    IN  CHOOSE t \in tops : \A u \in tops : u <= t

\* C23: when the top confidence of the query itself is below 0.5 and the
\* query has variants, the list returned is one whose top raw similarity is
\* the highest among the lists of the query and of all its variants.
C23_BestVariantReturned ==
    ( /\ ~StopsLoop(AttemptResults(snapshot.query))
      /\ ExpandQueryWithSynonyms(snapshot.query) # {snapshot.query} ) =>
        \A a \in 1..Len(answers) : answers[a][1].score = BestTopScore

(***************************************************************************)
(* Claims about POST /search admission (checked under SpecHTTP)            *)
(***************************************************************************)
\* this step answered a POST /search
SearchAnswered == reply'.at # reply.at /\ reply'.op = "search"

\* the request of this step passed the size middleware and the validation
WellFormed == ~SizeLimitRejects(reply'.request) /\ ValidSearchRequest(reply'.request)

\* C12: a well-formed search request is answered 429 exactly when its own
\* key already has RateLimit admitted requests in its window; a 429 runs no
\* search and appends no log line, and the other keys' counts play no part
C12_RateLimitPerKey ==
    [][(SearchAnswered /\ WellFormed) =>
          /\ reply'.status = 429 <=> rate_hits[reply'.request.key] >= RateLimit
          /\ reply'.status = 429 =>
                /\ ~reply'.ran
                /\ searchLog' = searchLog
                /\ rate_hits' = rate_hits]_vars

\* a key is refused while the other key is still served
C12_Witness ==
    /\ reply.op = "search"
    /\ reply.status = 429
    /\ \E other \in Keys \ {reply.request.key} : rate_hits[other] < RateLimit
    /\ rate_hits[reply.request.key] = RateLimit

\* C14: every JSON request whose body is larger than the size limit is
\* answered 413, runs no search and appends no log line
C14_OversizeBodyRejected ==
    [][(SearchAnswered /\ reply'.request.size > MaxBodySize) =>
          /\ reply'.status = 413
          /\ ~reply'.ran
          /\ searchLog' = searchLog]_vars

\* C15: a search request passes the validation if and only if
\* 1 <= len(query) <= 500 and 1 <= k <= 20; one outside these bounds gets a
\* client error and appends no log line
C15_ValidationBounds ==
    [][SearchAnswered =>
          /\ reply'.status \in {200, 429, 500, 503} =>
                /\ 1 <= reply'.request.query_len /\ reply'.request.query_len <= 500
                /\ 1 <= reply'.request.k /\ reply'.request.k <= 20
          /\ ( /\ 1 <= reply'.request.query_len /\ reply'.request.query_len <= 500
               /\ 1 <= reply'.request.k /\ reply'.request.k <= 20
               /\ ~SizeLimitRejects(reply'.request) )
                => reply'.status \in {200, 429, 500, 503}
          /\ reply'.status \in {413, 422} => ~reply'.ran /\ searchLog' = searchLog]_vars

\* a query of 501 characters was refused by the validation
C15_Witness ==
    /\ reply.op = "search"
    /\ reply.status = 422
    /\ reply.request.query_len = 501
    /\ reply.request.k = 20

\* C21: a search whose log entry could not be appended still gets its normal
\* successful response.
C21_LogFailureSwallowed ==
    (reply.op = "search" /\ reply.ran /\ ~reply.logged) => reply.status = 200

\* C22: every response carries the security headers, the 413 of the size
\* limit and the 429 of the rate limiter among them.
C22_SecurityHeadersOnAllResponses ==
    reply.op = "search" => reply.security_headers

(***************************************************************************)
(* Claims about the admin endpoints (checked under SpecAdmin)              *)
(***************************************************************************)
AdminOps == {"logs", "stats", "update-synonyms", "reindex", "delete-logs",
             "purge-logs"}

\* the step is the response to an admin request
AdminAnswered == reply'.at # reply.at /\ reply'.op \in AdminOps

\* the request carries the configured secret in the header or in the query
SuppliesSecret(cred) == cred.header = ADMIN_TOKEN \/ cred.token = ADMIN_TOKEN

\* C13: with ADMIN_TOKEN configured an admin request is rejected with 401
\* exactly when it supplies the secret neither in the x-admin-token header nor
\* in the token query parameter; a 401 leaves the catalog file, the log files,
\* the engine and the reindex flag as they were; with ADMIN_TOKEN unset no
\* admin request is rejected.
C13_AdminGate ==
    [][AdminAnswered =>
         /\ ADMIN_TOKEN # "" =>
              (reply'.status # 401 <=> SuppliesSecret(reply'.cred))
         /\ ADMIN_TOKEN = "" => reply'.status # 401
         /\ reply'.status = 401 =>
              UNCHANGED << dataFile, searchLog, feedbackLog, engine,
                           is_reindexing >>]_vars

\* the min(limit, n) entries appended last, the newest first
MostRecent(file, limit) ==
    [i \in 1..Min(limit, Len(file)) |-> file[Len(file) - i + 1]]

\* C19: reading a log of n well-formed entries with limit L gives the
\* min(L, n) entries appended last, newest first, whatever the size of the file.
C19_ReadLogsMostRecentFirst ==
    (reply.op = "logs" /\ reply.status = 200) =>
        reply.body = MostRecent(LogFile(reply.type), reply.limit)

\* the entries of a log written before time t, in the order of the file
EntriesBefore(log, t) == SelectSeq(log, LAMBDA e : e.t < t)

\* C20: DELETE /admin/logs?since=T leaves in both streams exactly the entries
\* written before T, in their order, whether T carries a timezone or not.
C20_DeleteSinceKeepsEarlier ==
    [][(AdminAnswered /\ reply'.op = "delete-logs" /\ reply'.status = 200
          /\ reply'.since.kind \in {"naive", "aware"}) =>
         /\ searchLog' = EntriesBefore(searchLog, reply'.since.t)
         /\ feedbackLog' = EntriesBefore(feedbackLog, reply'.since.t)]_vars

(***************************************************************************)
(* Claims about update-synonyms (checked under SpecSynonyms)               *)
(***************************************************************************)
\* the latest response is that of an update-synonyms request carried out
SynonymsAnswered == reply.op = "update-synonyms" /\ reply.status = 200

\* the synonyms of the record of a code once the updates naming that code
\* have been applied in order to the set syn
RECURSIVE SynonymsAfter(_, _, _)
SynonymsAfter(syn, nco_code, updates) ==
    IF updates = << >> THEN syn
    ELSE SynonymsAfter(IF Head(updates).nco_code = nco_code
                       THEN (syn \cup Head(updates).add) \ Head(updates).remove
                       ELSE syn,
                       nco_code, Tail(updates))

\* the record a code names in a catalog: the last one with that code
RecordOf(catalog, nco_code) ==
    CHOOSE i \in 1..Len(catalog) :
        /\ catalog[i].nco_code = nco_code
        /\ \A j \in (i + 1)..Len(catalog) : catalog[j].nco_code # nco_code

KnownCode(catalog, nco_code) ==
    \E i \in 1..Len(catalog) : catalog[i].nco_code = nco_code

\* some update of the batch added a synonym its record did not have, or
\* removed one it had, at the moment the update was applied
SomeChangeApplied(catalog, updates) ==
    \E p \in 1..Len(updates) :
        /\ KnownCode(catalog, updates[p].nco_code)
        /\ LET syn == SynonymsAfter(
                          catalog[RecordOf(catalog, updates[p].nco_code)].synonyms,
                          updates[p].nco_code, SubSeq(updates, 1, p - 1))
           IN  \/ updates[p].add \ syn # {}
               \/ updates[p].remove \cap (syn \cup updates[p].add) # {}

\* every add of the batch is already present and every remove is absent
NothingToDo(catalog, updates) ==
    \A p \in 1..Len(updates) :
        KnownCode(catalog, updates[p].nco_code) =>
            LET syn == catalog[RecordOf(catalog, updates[p].nco_code)].synonyms
            IN  updates[p].add \subseteq syn /\ updates[p].remove \cap syn = {}

UnknownCodes(catalog, updates) ==
    LET unknown == SelectSeq(updates, LAMBDA u : ~KnownCode(catalog, u.nco_code))
    IN  [p \in 1..Len(unknown) |-> unknown[p].nco_code]

AddThenRemove(c, v) ==
    /\ SynonymsAnswered
    /\ reply.prior.request = << [nco_code |-> c, add |-> {v}, remove |-> {}] >>
    /\ reply.request = << [nco_code |-> c, add |-> {}, remove |-> {v}] >>
    /\ KnownCode(reply.prior.before, c)

=============================================================================
